---- MODULE Spec2Model ----
(***************************************************************************)
(* Model of the in-process cache `Redis` of src/memory_management.py: the  *)
(* ordered entry table, the expiration heap, the LFU access counters, the  *)
(* background cleanup loop and the public operations set / get / delete /  *)
(* expire_matching_keys / close.                                           *)
(*                                                                         *)
(* Sizes are in abstract units: a key weighs KeySize, an object weighs     *)
(* what ObjSize says, a weakref wrapper weighs WeakRefSize on top of its   *)
(* live referent.  The clock `now` is the value time.time() returns.       *)
(*                                                                         *)
(* Every operation runs inside `with self.lock`.  The actions Set, Get,    *)
(* Delete, ExpireMatchingKeys and Cleanup are the bodies of those blocks;  *)
(* SpecLock runs them thread by thread, with the acquisitions and releases *)
(* of the lock as steps of their own, and the other specifications run     *)
(* each operation in one step.                                             *)
(***************************************************************************)
EXTENDS Integers, Sequences, FiniteSets, Bags, TLC

\* ------------------------------------------------------------------ bounds
MaxTime == 2
MaxCopies == 1
MaxFreq == 1
MaxPasses == 8

\* ------------------------------------------------- construction parameters
max_size == 3
FractionNum == 1
FractionDen == 2
default_expiration_time == 1

Strategies == {"LRU", "LFU", "FIFO", "SizeBased", "Random"}
Keys == {"A", "B", "C"}
\* objects a caller stores; 0 is an object asizeof cannot measure
Objects == {0, 1, 3}
TTLs == {default_expiration_time}
Patterns == {"A", "[AB]"}
None == -1

VARIABLES
    cleanup_strategy,     \* self.cleanup_strategy
    cache,                \* self.cache: OrderedDict, a sequence of entries
    expiration_heap,      \* self.expiration_heap: bag of <<deadline, key>>
    access_frequency,     \* self.access_frequency: dict, a sequence of [key, n]
    cleanup_loop_thread,  \* self.cleanup_loop_thread: the running flag
    sweeper,              \* position of cleanup_loop: "while", "sleep", "exit"
    now,                  \* the value of time.time()
    last,                 \* what the most recent step did (history)
    touched,              \* keys in the table, least recently touched first
    arrived,              \* keys in the table, earliest stored first
    counted,              \* hits of each key in the table since it was stored
    lock,                 \* self.lock: the RLock's owner and recursion count
    pc,                   \* where each thread stands in the operation it runs
    active_requests,      \* RequestQueueManager.active_requests: its keys
    condition_locks,      \* RequestQueueManager.condition_locks: key -> Condition
    global_lock,          \* RequestQueueManager.global_lock: its owner
    conditions,           \* the Condition objects created: owner and waiters
    requests              \* where each worker stands in process_request

\* touched and arrived are history kept under LRU and FIFO, counted under LFU

vars == <<cleanup_strategy, cache, expiration_heap, access_frequency,
          cleanup_loop_thread, sweeper, now, last, touched, arrived, counted,
          lock, pc, active_requests, condition_locks, global_lock,
          conditions, requests>>

\* the state of the cache and the state of the request queue manager
cache_vars == <<cleanup_strategy, cache, expiration_heap, access_frequency,
                cleanup_loop_thread, sweeper, now, last, touched, arrived,
                counted, lock, pc>>

queue == <<active_requests, condition_locks, global_lock, conditions,
           requests>>

\* ------------------------------------------------------- ordered mappings
\* OrderedDict / dict operations on a sequence of records with a `key` field
KeysOf(d) == [i \in DOMAIN d |-> d[i].key]

KeySet(d) == {d[i].key : i \in DOMAIN d}

Has(d, k) == \E i \in DOMAIN d : d[i].key = k

Lookup(d, k) == d[CHOOSE i \in DOMAIN d : d[i].key = k]

Remove(d, k) == SelectSeq(d, LAMBDA r : r.key # k)

Put(d, r) ==
    IF Has(d, r.key)
    THEN [i \in DOMAIN d |-> IF d[i].key = r.key THEN r ELSE d[i]]
    ELSE Append(d, r)

MoveToEnd(d, k) == Append(Remove(d, k), Lookup(d, k))

\* a sequence of keys without k, and with k moved to the back
Without(s, k) == SelectSeq(s, LAMBDA x : x # k)

ToBack(s, k) == Append(Without(s, k), k)

Restrict(s, S) == SelectSeq(s, LAMBDA x : x \in S)

\* ------------------------------------------------------------------ sizes
\* what pympler.asizeof reports for a plain object, in units
ObjSize(o) == o

KeySize(k) == 1

WeakRefSize == 1

\* the objects weakref.ref accepts: instances of ordinary classes, here the
\* object of size 1; for the others (str, int, tuple, ...) it raises TypeError
Referable(o) == o = 1

\* a stored value: the object itself, or a weakref.ref to it
Strong(o) == [obj |-> o, weak |-> FALSE, alive |-> TRUE]

WeakRef(o) == [obj |-> o, weak |-> TRUE, alive |-> TRUE]

\* _get_size of a stored value: asizeof follows a weak reference to its
\* referent while the referent is alive
ValueSize(v) ==
    IF v.weak
    THEN WeakRefSize + (IF v.alive THEN ObjSize(v.obj) ELSE 0)
    ELSE ObjSize(v.obj)

EntrySize(e) == KeySize(e.key) + ValueSize(e.value)

RECURSIVE SumSizes(_)
SumSizes(d) ==
    IF d = <<>> THEN 0 ELSE EntrySize(Head(d)) + SumSizes(Tail(d))

_get_current_size(d) == SumSizes(d)

\* len(str(x)) as used by the size-based periodic pass
StrLen(v) == IF v.weak THEN 3 ELSE IF v.obj = 3 THEN 2 ELSE 1

StrSize(e) == 1 + StrLen(e.value)

\* ------------------------------------------------ capacity-pressure eviction
\* a bug LeastUsed could have: the oldest counter, whatever its count
LeastUsed_Oldest(f) == f[1].key

\* min(self.access_frequency, key=self.access_frequency.get): the first key,
\* in dict order, whose count is the smallest
LeastUsed(f) ==
    f[CHOOSE i \in DOMAIN f :
        /\ \A j \in DOMAIN f : f[i].n <= f[j].n
        /\ \A j \in 1..(i - 1) : f[j].n > f[i].n].key

\* a bug Largest could have: the front of the table, whatever its size
Largest_Front(d) == d[1].key

\* max(self.cache, key=size): the first key, in table order, of largest size
Largest(d) ==
    d[CHOOSE i \in DOMAIN d :
        /\ \A j \in DOMAIN d : EntrySize(d[i]) >= EntrySize(d[j])
        /\ \A j \in 1..(i - 1) : EntrySize(d[j]) < EntrySize(d[i])].key

\* random.choice(list(self.cache.keys())): rnd lists the keys in the order the
\* generator would draw them
RandomKey(d, rnd) ==
    rnd[CHOOSE i \in DOMAIN rnd :
        /\ Has(d, rnd[i])
        /\ \A j \in 1..(i - 1) : ~Has(d, rnd[j])]

\* the key the active strategy removes when the front entry is not permanent
Victim(strategy, d, f, rnd) ==
    CASE strategy = "LFU" -> LeastUsed(f)
      [] strategy = "SizeBased" -> Largest(d)
      [] strategy = "Random" -> RandomKey(d, rnd)
      [] OTHER -> d[1].key

\* a bug EvictStep could have: under LFU the victim's counter is left behind
EvictStep_KeepsCounter(strategy, st, rnd) ==
    IF ~st.cache[1].permanent
    THEN LET v == Victim(strategy, st.cache, st.freq, rnd)
         IN [st EXCEPT
                !.cache = Remove(st.cache, v),
                !.log = Append(st.log, [victim |-> v, cache |-> st.cache,
                                        freq |-> st.freq]),
                !.any = TRUE]
    ELSE [st EXCEPT !.cache = MoveToEnd(st.cache, st.cache[1].key)]

\* one iteration of the for loop of _evict_if_needed; st carries the table, the
\* counters, the log of eviction steps and evicted_any
EvictStep(strategy, st, rnd) ==
    IF ~st.cache[1].permanent
    THEN LET v == Victim(strategy, st.cache, st.freq, rnd)
         IN [st EXCEPT
                !.cache = Remove(st.cache, v),
                !.freq = IF strategy = "LFU" THEN Remove(st.freq, v)
                         ELSE st.freq,
                !.log = Append(st.log, [victim |-> v, cache |-> st.cache,
                                        freq |-> st.freq]),
                !.any = TRUE]
    ELSE [st EXCEPT !.cache = MoveToEnd(st.cache, st.cache[1].key)]

RECURSIVE EvictLoop(_, _, _, _, _)
EvictLoop(strategy, st, n, new_entry_size, rnd) ==
    IF n = 0 \/ _get_current_size(st.cache) + new_entry_size <= max_size
    THEN st
    ELSE EvictLoop(strategy, EvictStep(strategy, st, rnd), n - 1,
                   new_entry_size, rnd)

\* a bug _evict_if_needed could have: the pass stops one entry short
_evict_if_needed_ShortPass(strategy, st, new_entry_size, rnd) ==
    EvictLoop(strategy, [st EXCEPT !.any = FALSE], Len(st.cache) - 1,
              new_entry_size, rnd)

_evict_if_needed(strategy, st, new_entry_size, rnd) ==
    EvictLoop(strategy, [st EXCEPT !.any = FALSE], Len(st.cache),
              new_entry_size, rnd)

\* the while loop of set: the state it leaves, with `any` telling whether the
\* write goes ahead (TRUE) or is dropped (FALSE) and `passes` counting the
\* calls of _evict_if_needed; the loop is unrolled MaxPasses times at most
RECURSIVE MakeRoom(_, _, _, _)
MakeRoom(strategy, st, entry_size, rnd) ==
    IF _get_current_size(st.cache) + entry_size <= max_size
    THEN [st EXCEPT !.any = TRUE]
    ELSE IF st.cache = <<>> \/ st.passes >= MaxPasses
    THEN [st EXCEPT !.any = FALSE]
    ELSE LET r == _evict_if_needed(strategy,
                                   [st EXCEPT !.passes = st.passes + 1],
                                   entry_size, rnd)
         IN IF r.any THEN MakeRoom(strategy, r, entry_size, rnd) ELSE r

\* ------------------------------------------------------- periodic cleanup
\* sorted(s, key=w): stable, ascending in the weight w[i] of the i-th element
StableSortBy(s, w) ==
    [r \in 1..Len(s) |->
        s[CHOOSE i \in 1..Len(s) :
            Cardinality({j \in 1..Len(s) :
                w[j] < w[i] \/ (w[j] = w[i] /\ j < i)}) = r - 1]]

\* the keys of the heap records the drain pops: every deadline before now
Popped(heap, t) == {r \in BagToSet(heap) : r[1] < t}

\* the entries the drain deletes: popped, still in the table, not permanent
ExpiredKeys(d, heap, t) ==
    {k \in KeySet(d) : /\ \E r \in Popped(heap, t) : r[2] = k
                       /\ ~Lookup(d, k).permanent}

RemoveAll(d, S) == SelectSeq(d, LAMBDA r : r.key \notin S)

\* heap records left after the drain
Undrained(heap, t) ==
    [r \in {x \in BagToSet(heap) : x[1] >= t} |-> heap[r]]

\* int(len(self.cache) * fraction) when the table is longer than
\* max_size * fraction, else nothing is deleted
num_to_delete(d) ==
    IF Len(d) * FractionDen > max_size * FractionNum
    THEN (Len(d) * FractionNum) \div FractionDen
    ELSE 0

_cleanup_lru(d) == SubSeq(d, num_to_delete(d) + 1, Len(d))

_cleanup_fifo(d) == SubSeq(d, num_to_delete(d) + 1, Len(d))

\* the keys _cleanup_lfu picks: the first num_to_delete counters by count
least_used_keys(d, f) ==
    LET sorted == StableSortBy(KeysOf(f), [i \in DOMAIN f |-> f[i].n])
    IN {sorted[i] : i \in (1..num_to_delete(d)) \cap DOMAIN sorted}

_cleanup_lfu(d, f) == KeySet(d) \cap least_used_keys(d, f)

\* the keys _cleanup_size_based deletes: the longest str(key) + str(value)
_cleanup_size_based(d) ==
    LET sorted == StableSortBy(KeysOf(d), [i \in DOMAIN d |-> 0 - StrSize(d[i])])
    IN {sorted[i] : i \in 1..num_to_delete(d)}

\* the table and counters after the strategy pass; sample is what
\* random.sample returns
StrategyPass(strategy, d, f, sample) ==
    CASE strategy = "LRU" -> [cache |-> _cleanup_lru(d), freq |-> f]
      [] strategy = "FIFO" -> [cache |-> _cleanup_fifo(d), freq |-> f]
      [] strategy = "LFU" ->
            [cache |-> RemoveAll(d, _cleanup_lfu(d, f)),
             freq |-> RemoveAll(f, _cleanup_lfu(d, f))]
      [] strategy = "SizeBased" ->
            [cache |-> RemoveAll(d, _cleanup_size_based(d)), freq |-> f]
      [] strategy = "Random" -> [cache |-> RemoveAll(d, sample), freq |-> f]
      [] OTHER -> [cache |-> d, freq |-> f]

\* ------------------------------------------------------------ operations
DrawOrders(S) ==
    {p \in [1..Cardinality(S) -> S] : \A i, j \in DOMAIN p : i # j => p[i] # p[j]}

\* the order random.choice is not consulted under the other strategies
Draws == IF cleanup_strategy = "Random" THEN DrawOrders(Keys) ELSE {<<>>}

\* the history: a touch (a set that stores, a get that finds a live entry)
\* and an arrival (a set that stores) send the key to the back of their order;
\* a set that stores starts the key's hit count, a get that finds a live entry
\* adds one
Ordered == cleanup_strategy \in {"LRU", "FIFO"}

Touch(s, k) == IF Ordered THEN ToBack(s, k) ELSE s

Arrive(s, k) == IF Ordered THEN ToBack(s, k) ELSE s

NoHits == [k \in Keys |-> 0]

Hits(c, S) == [k \in Keys |-> IF k \in S THEN c[k] ELSE 0]

Stored(c, k) == IF cleanup_strategy = "LFU" THEN [c EXCEPT ![k] = 0] ELSE c

Hit(c, k) == IF cleanup_strategy = "LFU" THEN [c EXCEPT ![k] = c[k] + 1] ELSE c

NoHistory == [touched |-> <<>>, arrived |-> <<>>, counted |-> NoHits]

\* what a step did: the operation, its argument and result, whether a set
\* stored its entry, the eviction steps of a set (each with the victim and the
\* table and counters it was chosen from) with the history they started from,
\* and the keys a step removed as expired or in the periodic strategy pass;
\* for a set also whether it raised, whether it gave up for lack of space,
\* how many times it called _evict_if_needed, and the entry_size it computed;
\* for a delete the key it took out of the table
Did(op, key, ret) ==
    [op |-> op, key |-> key, ret |-> ret, stored |-> FALSE,
     evicted |-> <<>>, before |-> NoHistory, expired |-> {}, swept |-> {},
     raised |-> FALSE, aborted |-> FALSE, passes |-> 0, size |-> 0,
     removed |-> {}]

Before(log) ==
    IF log = <<>> THEN NoHistory
    ELSE [touched |-> touched, arrived |-> arrived, counted |-> counted]

\* ------------------------------------------------------------------ lock
\* the threads that use one cache: two callers and the cleanup thread
Threads == {"t1", "t2", "sweeper"}

NoThread == ""

Unlocked == [owner |-> NoThread, count |-> 0]

\* a bug CanAcquire could have: the lock lets every thread in
CanAcquire_Always(l, t) == TRUE

\* threading.RLock: free, or already held by the thread that asks
CanAcquire(l, t) == l.owner = NoThread \/ l.owner = t

Acquired(l, t) == [owner |-> t, count |-> l.count + 1]

Released(l) ==
    IF l.count > 1 THEN [l EXCEPT !.count = l.count - 1] ELSE Unlocked

\* a thread outside every operation
Idle == [at |-> "idle", op |-> "", seen |-> <<>>]

\* an operation that runs with no other thread about takes the lock and gives
\* it back within the step
Alone == UNCHANGED <<lock, pc, queue>>

\* the threads that run process_request and the keys they ask for
Workers == {"w1", "w2", "w3"}

RequestKeys == {"AAPL", "GOOG"}

NoCondition == 0

NotStarted == [at |-> "start", key |-> "", condition |-> NoCondition]

\* RequestQueueManager.__init__, no thread started yet
InitQueue ==
    /\ active_requests = {}
    /\ condition_locks = [k \in {} |-> NoCondition]
    /\ global_lock = NoThread
    /\ conditions = <<>>
    /\ requests = [w \in Workers |-> NotStarted]

Init ==
    /\ InitQueue
    /\ cleanup_strategy \in Strategies
    /\ cache = <<>>
    /\ expiration_heap = EmptyBag
    /\ access_frequency = <<>>
    /\ cleanup_loop_thread = TRUE
    /\ sweeper = "while"
    /\ now = 0
    /\ last = Did("init", "", None)
    /\ touched = <<>>
    /\ arrived = <<>>
    /\ counted = NoHits
    /\ lock = Unlocked
    /\ pc = [t \in Threads |-> Idle]

\* a set the model admits: it leaves at most n copies of its record in the
\* heap
Fresh(key, expiration_time, n) ==
    CopiesIn(<<now + expiration_time, key>>, expiration_heap') <= n

\* a bug TooLarge could have: no entry is held too large
TooLarge_Never(entry_size) == FALSE

\* the entry can never fit
TooLarge(entry_size) == entry_size > max_size

\* set(key, value, expiration_time, permanent, use_weakref)
Set(key, obj, expiration_time, permanent, use_weakref, rnd) ==
    LET entry_size == KeySize(key) + ObjSize(obj)
        r == MakeRoom(cleanup_strategy,
                      [cache |-> cache, freq |-> access_frequency,
                       log |-> <<>>, any |-> FALSE, passes |-> 0],
                      entry_size, rnd)
        value == IF use_weakref THEN WeakRef(obj) ELSE Strong(obj)
        entry == [key |-> key, value |-> value,
                  expiration_time |-> expiration_time, created |-> now,
                  permanent |-> permanent]
        did == [Did("set", key, None) EXCEPT !.evicted = r.log,
                                             !.before = Before(r.log),
                                             !.passes = r.passes,
                                             !.size = entry_size]
    IN IF TooLarge(entry_size)
       THEN /\ last' = [Did("set", key, None) EXCEPT !.size = entry_size]
            /\ UNCHANGED <<cleanup_strategy, cache, expiration_heap,
                           access_frequency, cleanup_loop_thread, sweeper,
                           now, touched, arrived, counted>>
       ELSE IF ~r.any \/ (use_weakref /\ ~Referable(obj))
       THEN \* the write is given up for lack of space, or weakref.ref raises
            \* TypeError; what was evicted stays evicted
            /\ cache' = r.cache
            /\ access_frequency' = r.freq
            /\ touched' = Restrict(touched, KeySet(r.cache))
            /\ arrived' = Restrict(arrived, KeySet(r.cache))
            /\ counted' = Hits(counted, KeySet(r.cache))
            /\ last' = [did EXCEPT !.aborted = ~r.any, !.raised = r.any]
            /\ UNCHANGED <<cleanup_strategy, expiration_heap,
                           cleanup_loop_thread, sweeper, now>>
       ELSE /\ cache' = MoveToEnd(Put(r.cache, entry), key)
            /\ expiration_heap' =
                    IF permanent THEN expiration_heap
                    ELSE expiration_heap (+)
                         SetToBag({<<now + expiration_time, key>>})
            /\ access_frequency' =
                    IF cleanup_strategy = "LFU"
                    THEN Put(r.freq, [key |-> key, n |-> 0])
                    ELSE r.freq
            /\ touched' = Touch(Restrict(touched, KeySet(r.cache)), key)
            /\ arrived' = Arrive(Restrict(arrived, KeySet(r.cache)), key)
            /\ counted' = Stored(Hits(counted, KeySet(r.cache)), key)
            /\ last' = [did EXCEPT !.stored = TRUE]
            /\ UNCHANGED <<cleanup_strategy, cleanup_loop_thread, sweeper, now>>

\* a bug Deref could have: the referent is handed out though it is gone
Deref_Stale(v) == v.obj

\* the value a hit returns: the object, or None for a reclaimed referent
Deref(v) == IF v.weak /\ ~v.alive THEN None ELSE v.obj

\* a bug IsExpired could have: the permanent flag is not consulted
IsExpired_IgnoringPermanent(e, t) == t - e.created > e.expiration_time

\* the expiry test of get
IsExpired(e, t) == t - e.created > e.expiration_time /\ ~e.permanent

Count(f, k) == IF Has(f, k) THEN Lookup(f, k).n ELSE 0

\* bugs Reordered could have: no strategy reorders, every strategy reorders
Reordered_Never(strategy, d, key) == d

Reordered_Always(strategy, d, key) == MoveToEnd(d, key)

\* the table after a hit: LRU moves the key to the end
Reordered(strategy, d, key) ==
    IF strategy = "LRU" THEN MoveToEnd(d, key) ELSE d

\* what get(key) returns at time t from table d
Returned(d, key, t) ==
    IF ~Has(d, key) THEN None
    ELSE IF IsExpired(Lookup(d, key), t) THEN None
    ELSE Deref(Lookup(d, key).value)

\* get(key)
Get(key) ==
    IF ~Has(cache, key)
    THEN /\ last' = Did("get", key, None)
         /\ UNCHANGED <<cleanup_strategy, cache, expiration_heap,
                        access_frequency, cleanup_loop_thread, sweeper, now,
                        touched, arrived, counted>>
    ELSE IF IsExpired(Lookup(cache, key), now)
    THEN /\ cache' = Remove(cache, key)
         /\ access_frequency' = Remove(access_frequency, key)
         /\ touched' = Without(touched, key)
         /\ arrived' = Without(arrived, key)
         /\ counted' = Hits(counted, KeySet(cache) \ {key})
         /\ last' = [Did("get", key, None) EXCEPT !.expired = {key}]
         /\ UNCHANGED <<cleanup_strategy, expiration_heap,
                        cleanup_loop_thread, sweeper, now>>
    ELSE /\ cleanup_strategy = "LFU" => Count(access_frequency, key) < MaxFreq
         /\ access_frequency' =
                 IF cleanup_strategy = "LFU"
                 THEN Put(access_frequency,
                          [key |-> key, n |-> Count(access_frequency, key) + 1])
                 ELSE access_frequency
         /\ cache' = Reordered(cleanup_strategy, cache, key)
         /\ touched' = Touch(touched, key)
         /\ counted' = Hit(counted, key)
         /\ last' = Did("get", key, Returned(cache, key, now))
         /\ UNCHANGED <<cleanup_strategy, expiration_heap,
                        cleanup_loop_thread, sweeper, now, arrived>>

\* a bug Forget could have: the counter goes whether or not the key is in
\* the table
Forget_Always(f, d, key) == Remove(f, key)

\* the counter of a deleted key: taken out only inside `if key in self.cache`
Forget(f, d, key) == IF Has(d, key) THEN Remove(f, key) ELSE f

\* delete(key)
Delete(key) ==
    /\ cache' = Remove(cache, key)
    /\ access_frequency' = Forget(access_frequency, cache, key)
    /\ touched' = Without(touched, key)
    /\ arrived' = Without(arrived, key)
    /\ counted' = Hits(counted, KeySet(cache) \ {key})
    /\ last' = [Did("delete", key, None) EXCEPT
                    !.removed = {key} \cap KeySet(cache)]
    /\ UNCHANGED <<cleanup_strategy, expiration_heap, cleanup_loop_thread,
                   sweeper, now>>

\* regex.match(key) for the patterns the model draws from
Matches(pattern, key) ==
    CASE pattern = "A" -> key = "A"
      [] pattern = "[AB]" -> key \in {"A", "B"}
      [] OTHER -> TRUE

\* a bug keys_to_expire could have: every key of the table is taken
keys_to_expire_All(pattern, d) == KeySet(d)

\* the keys of the table the pattern matches
keys_to_expire(pattern, d) == {k \in KeySet(d) : Matches(pattern, k)}

\* expire_matching_keys(pattern)
ExpireMatchingKeys(pattern) ==
    /\ cache' = [i \in DOMAIN cache |->
                    IF cache[i].key \in keys_to_expire(pattern, cache)
                    THEN [cache[i] EXCEPT !.expiration_time = 0, !.created = now]
                    ELSE cache[i]]
    /\ last' = Did("expire_matching_keys", pattern, None)
    /\ UNCHANGED <<cleanup_strategy, expiration_heap, access_frequency,
                   cleanup_loop_thread, sweeper, now, touched, arrived, counted>>

\* close()
Close ==
    /\ cleanup_loop_thread' = FALSE
    /\ last' = Did("close", "", None)
    /\ UNCHANGED <<queue, lock, pc, cleanup_strategy, cache, expiration_heap, access_frequency,
                   sweeper, now, touched, arrived, counted>>

\* a bug SweeperTest could have: the loop does not look at the flag
SweeperTest_IgnoresFlag ==
    /\ sweeper = "while"
    /\ sweeper' = "sleep"
    /\ last' = Did("while", "", None)
    /\ UNCHANGED <<queue, lock, pc, cleanup_strategy, cache, expiration_heap,
                   access_frequency, cleanup_loop_thread, now, touched,
                   arrived, counted>>

\* cleanup_loop: the test of `while self.cleanup_loop_thread`
SweeperTest ==
    /\ sweeper = "while"
    /\ sweeper' = IF cleanup_loop_thread THEN "sleep" ELSE "exit"
    /\ last' = Did("while", "", None)
    /\ UNCHANGED <<queue, lock, pc, cleanup_strategy, cache, expiration_heap, access_frequency,
                   cleanup_loop_thread, now, touched, arrived, counted>>

\* cleanup_loop: time.sleep returns and _cleanup runs
Cleanup(sample) ==
    LET expired == ExpiredKeys(cache, expiration_heap, now)
        drained == RemoveAll(cache, expired)
        r == StrategyPass(cleanup_strategy, drained, access_frequency, sample)
    IN /\ sweeper = "sleep"
       /\ sweeper' = "while"
       /\ cache' = r.cache
       /\ access_frequency' = r.freq
       /\ expiration_heap' = Undrained(expiration_heap, now)
       /\ touched' = Restrict(touched, KeySet(r.cache))
       /\ arrived' = Restrict(arrived, KeySet(r.cache))
       /\ counted' = Hits(counted, KeySet(r.cache))
       /\ last' = [Did("cleanup", "", None) EXCEPT
                        !.expired = expired,
                        !.swept = KeySet(drained) \ KeySet(r.cache)]
       /\ UNCHANGED <<cleanup_strategy, cleanup_loop_thread, now>>

\* what random.sample may return for the table the drain leaves
Samples ==
    LET drained == RemoveAll(cache, ExpiredKeys(cache, expiration_heap, now))
    IN IF cleanup_strategy = "Random"
       THEN {S \in SUBSET KeySet(drained) : Cardinality(S) = num_to_delete(drained)}
       ELSE {{}}

\* the owner of a weakly stored object drops it and it is reclaimed
Reclaim(key) ==
    /\ Has(cache, key)
    /\ Lookup(cache, key).value.weak
    /\ Lookup(cache, key).value.alive
    /\ cache' = Put(cache, [Lookup(cache, key) EXCEPT !.value.alive = FALSE])
    /\ last' = Did("reclaim", key, None)
    /\ UNCHANGED <<queue, lock, pc, cleanup_strategy, expiration_heap, access_frequency,
                   cleanup_loop_thread, sweeper, now, touched, arrived, counted>>

\* the clock advances
Tick ==
    /\ now < MaxTime
    /\ now' = now + 1
    /\ last' = Did("tick", "", None)
    /\ UNCHANGED <<queue, lock, pc, cleanup_strategy, cache, expiration_heap, access_frequency,
                   cleanup_loop_thread, sweeper, touched, arrived, counted>>

\* ------------------------------------------- operations, thread by thread
\* a thread goes from "idle" to the `with self.lock` of its operation ("with"),
\* takes the lock, in set measures the table through _get_current_size, which
\* takes the lock again ("size"), runs the rest of the operation ("body"),
\* and leaves the with block ("exit")
Ops == {"set", "get", "delete", "expire_matching_keys", "cleanup"}

\* what the operations read and write
Data == <<cache, expiration_heap, access_frequency>>

\* the operation stays within the bounds of the model: a set leaves at most
\* MaxCopies + 1 copies of its record in the heap
WithinBounds(op) ==
    /\ op = "set" =>
            CopiesIn(<<now + default_expiration_time, "A">>, expiration_heap)
                <= MaxCopies
    /\ (op = "get" /\ cleanup_strategy = "LFU") =>
            Count(access_frequency, "A") < MaxFreq

\* a caller calls an operation; the cleanup thread wakes from its sleep and
\* calls _cleanup
Call(t, op) ==
    /\ pc[t].at = "idle"
    /\ IF t = "sweeper"
       THEN op = "cleanup" /\ sweeper = "sleep"
       ELSE op # "cleanup"
    /\ pc' = [pc EXCEPT ![t] = [at |-> "with", op |-> op, seen |-> <<>>]]
    /\ UNCHANGED <<cleanup_strategy, cache, expiration_heap, access_frequency,
                   cleanup_loop_thread, sweeper, now, last, touched, arrived,
                   counted, lock>>
    /\ UNCHANGED queue

\* `with self.lock:` of the operation
Acquire(t) ==
    /\ pc[t].at = "with"
    /\ WithinBounds(pc[t].op)
    /\ CanAcquire(lock, t)
    /\ lock' = Acquired(lock, t)
    /\ pc' = [pc EXCEPT ![t].at = IF pc[t].op = "set" THEN "size" ELSE "body",
                        ![t].seen = Data]
    /\ UNCHANGED <<cleanup_strategy, cache, expiration_heap, access_frequency,
                   cleanup_loop_thread, sweeper, now, last, touched, arrived,
                   counted>>
    /\ UNCHANGED queue

\* set: current_size = self._get_current_size(), which takes the lock the
\* thread already holds and gives it back
Size(t) ==
    /\ pc[t].at = "size"
    /\ CanAcquire(lock, t)
    /\ lock' = Released(Acquired(lock, t))
    /\ pc' = [pc EXCEPT ![t].at = "body"]
    /\ UNCHANGED <<cleanup_strategy, cache, expiration_heap, access_frequency,
                   cleanup_loop_thread, sweeper, now, last, touched, arrived,
                   counted>>
    /\ UNCHANGED queue

\* the rest of the operation, up to the end of its with block
Body(t) ==
    /\ pc[t].at = "body"
    /\ pc' = [pc EXCEPT ![t].at = "exit"]
    /\ UNCHANGED <<lock, queue>>
    /\ \/ /\ pc[t].op = "set"
          /\ \E rnd \in Draws :
                Set("A", 1, default_expiration_time, FALSE, FALSE, rnd)
       \/ pc[t].op = "get" /\ Get("A")
       \/ pc[t].op = "delete" /\ Delete("A")
       \/ pc[t].op = "expire_matching_keys" /\ ExpireMatchingKeys("A")
       \/ /\ pc[t].op = "cleanup"
          /\ \E sample \in Samples : Cleanup(sample)

\* the end of the with block
Release(t) ==
    /\ pc[t].at = "exit"
    /\ lock' = Released(lock)
    /\ pc' = [pc EXCEPT ![t] = Idle]
    /\ UNCHANGED <<cleanup_strategy, cache, expiration_heap, access_frequency,
                   cleanup_loop_thread, sweeper, now, last, touched, arrived,
                   counted>>
    /\ UNCHANGED queue

\* every operation over keys K and objects O, with the permanent flag drawn from
\* P and use_weakref from W
Calls(K, O, P, W) ==
    \/ \E key \in K, obj \in O, expiration_time \in TTLs,
          permanent \in P, use_weakref \in W, rnd \in Draws :
            /\ Set(key, obj, expiration_time, permanent, use_weakref, rnd)
            /\ Fresh(key, expiration_time, MaxCopies)
            /\ Alone
    \/ \E key \in K : Get(key) /\ Alone
    \/ \E key \in K : Delete(key) /\ Alone

Background ==
    \/ Close
    \/ SweeperTest
    \/ \E sample \in Samples : Cleanup(sample) /\ Alone

\* one cache of any strategy over time: one key, one object size
Next ==
    \/ Calls({"A"}, {1}, BOOLEAN, {FALSE})
    \/ \E pattern \in Patterns : ExpireMatchingKeys(pattern) /\ Alone
    \/ Background
    \/ Tick

Spec == Init /\ [][Next]_vars

\* the same with a scheduler that lets the cleanup thread run: its sleep
\* ends, and its test of the flag is made
SpecFair ==
    /\ Spec
    /\ WF_vars(SweeperTest)
    /\ WF_vars(\E sample \in Samples : Cleanup(sample) /\ Alone)

\* capacity pressure at one instant: two keys, weakly stored entries, any
\* strategy
NextWeak ==
    \/ Calls({"A", "B"}, Objects, {FALSE}, BOOLEAN)
    \/ \E key \in {"A", "B"} : Reclaim(key)
    \/ SweeperTest
    \/ \E sample \in Samples : Cleanup(sample) /\ Alone

SpecWeak == Init /\ [][NextWeak]_vars

\* capacity pressure at one instant: two keys, permanent entries, any strategy
NextTwo ==
    \/ Calls({"A", "B"}, Objects, BOOLEAN, {FALSE})
    \/ SweeperTest
    \/ \E sample \in Samples : Cleanup(sample) /\ Alone

SpecTwo == Init /\ [][NextTwo]_vars

\* capacity pressure at one instant: three keys, no permanent entries
NextPlain ==
    \/ Calls(Keys, Objects, {FALSE}, {FALSE})
    \/ SweeperTest
    \/ \E sample \in Samples : Cleanup(sample) /\ Alone

InitLRU == Init /\ cleanup_strategy = "LRU"

SpecLRU == InitLRU /\ [][NextPlain]_vars

InitFIFO == Init /\ cleanup_strategy = "FIFO"

SpecFIFO == InitFIFO /\ [][NextPlain]_vars

InitLFU == Init /\ cleanup_strategy = "LFU"

SpecLFU == InitLFU /\ [][NextPlain]_vars

\* capacity pressure at one instant: three keys, permanent entries
NextPermanent ==
    \/ Calls(Keys, Objects, BOOLEAN, {FALSE})
    \/ SweeperTest
    \/ \E sample \in Samples : Cleanup(sample) /\ Alone

InitSizeBased == Init /\ cleanup_strategy = "SizeBased"

SpecSizeBased == InitSizeBased /\ [][NextPermanent]_vars

\* one weakly or strongly stored entry over time, its referent reclaimed at
\* any moment
NextReclaim ==
    \/ Calls({"A"}, {1}, BOOLEAN, BOOLEAN)
    \/ Reclaim("A")
    \/ \E pattern \in {"A"} : ExpireMatchingKeys(pattern) /\ Alone
    \/ SweeperTest
    \/ \E sample \in Samples : Cleanup(sample) /\ Alone
    \/ Tick

SpecReclaim == Init /\ [][NextReclaim]_vars

\* capacity pressure over time: two keys of which the table holds one at a
\* time, permanent entries, counters the heap drain left behind
NextStale ==
    \/ \E key \in {"A", "B"}, permanent \in BOOLEAN, rnd \in Draws :
            /\ Set(key, 1, default_expiration_time, permanent, FALSE, rnd)
            /\ Fresh(key, default_expiration_time, MaxCopies)
            /\ Alone
    \/ SweeperTest
    \/ \E sample \in Samples : Cleanup(sample) /\ Alone
    \/ Tick

SpecStale == Init /\ [][NextStale]_vars

\* the periodic pass under LFU over time: three small entries, each set while
\* its key is not in the table, counters the heap drain left behind
NextSweep ==
    \/ \E key \in Keys :
            /\ ~Has(cache, key)
            /\ Set(key, 0, default_expiration_time, FALSE, FALSE, <<>>)
            /\ Fresh(key, default_expiration_time, MaxCopies)
            /\ Alone
    \/ SweeperTest
    \/ \E sample \in Samples : Cleanup(sample) /\ Alone
    \/ Tick

SpecSweep == InitLFU /\ [][NextSweep]_vars

\* two keys over time, any strategy: entries set, read and deleted, counters
\* the heap drain left behind
NextDelete ==
    \/ Calls({"A", "B"}, {0}, {FALSE}, {FALSE})
    \/ SweeperTest
    \/ \E sample \in Samples : Cleanup(sample) /\ Alone
    \/ Tick

SpecDelete == Init /\ [][NextDelete]_vars

\* two keys over time under FIFO, permanent entries: one key matched by
\* both patterns and one by the wider pattern only
NextExpire ==
    \/ Calls({"A", "B"}, {0}, BOOLEAN, {FALSE})
    \/ \E pattern \in Patterns : ExpireMatchingKeys(pattern) /\ Alone
    \/ SweeperTest
    \/ \E sample \in Samples : Cleanup(sample) /\ Alone
    \/ Tick

SpecExpire == InitFIFO /\ [][NextExpire]_vars

\* ------------------------------------------------- RequestQueueManager
\* threading.Condition(): a new object, its lock free and nobody waiting
NewCondition == [owner |-> NoThread, waiters |-> {}]

At(w, at) == [requests EXCEPT ![w].at = at]

\* process_request(key) starts: it calls inqueue(key), which calls
\* get_condition(key)
Inqueue(w, key) ==
    /\ requests[w].at = "start"
    /\ requests' = [requests EXCEPT ![w] = [at |-> "inqueue", key |-> key,
                                            condition |-> NoCondition]]
    /\ UNCHANGED <<active_requests, condition_locks, global_lock, conditions>>
    /\ UNCHANGED cache_vars

\* get_condition: `with self.global_lock:`
GetConditionLock(w) ==
    /\ requests[w].at \in {"inqueue", "dequeue"}
    /\ global_lock = NoThread
    /\ global_lock' = w
    /\ requests' = At(w, IF requests[w].at = "inqueue" THEN "inqueue_get"
                         ELSE "dequeue_get")
    /\ UNCHANGED <<active_requests, condition_locks, conditions>>
    /\ UNCHANGED cache_vars

\* get_condition: the key's Condition, created when the key has none; the
\* global lock is given back
GetCondition(w) ==
    LET key == requests[w].key
        missing == key \notin DOMAIN condition_locks
        condition == IF missing THEN Len(conditions) + 1
                     ELSE condition_locks[key]
    IN /\ requests[w].at \in {"inqueue_get", "dequeue_get"}
       /\ conditions' = IF missing THEN Append(conditions, NewCondition)
                        ELSE conditions
       /\ condition_locks' =
             IF missing
             THEN [k \in DOMAIN condition_locks \cup {key} |->
                      IF k = key THEN condition ELSE condition_locks[k]]
             ELSE condition_locks
       /\ global_lock' = NoThread
       /\ requests' = [requests EXCEPT
             ![w].condition = condition,
             ![w].at = IF requests[w].at = "inqueue_get" THEN "inqueue_with"
                       ELSE "dequeue_with"]
       /\ UNCHANGED active_requests
       /\ UNCHANGED cache_vars

\* `with condition:` of inqueue and of dequeue; a thread notify_all has woken
\* takes the Condition's lock back the same way before wait() returns
WithCondition(w) ==
    LET c == requests[w].condition
    IN /\ requests[w].at \in {"inqueue_with", "dequeue_with", "notified"}
       /\ conditions[c].owner = NoThread
       /\ conditions' = [conditions EXCEPT ![c].owner = w]
       /\ requests' = At(w, IF requests[w].at = "dequeue_with" THEN "if"
                            ELSE "while")
       /\ UNCHANGED <<active_requests, condition_locks, global_lock>>
       /\ UNCHANGED cache_vars

\* inqueue: `while request_key in self.active_requests: condition.wait()`,
\* one test of the loop; wait() releases the Condition's lock
While(w) ==
    LET c == requests[w].condition
    IN /\ requests[w].at = "while"
       /\ IF requests[w].key \in active_requests
          THEN /\ conditions' = [conditions EXCEPT
                      ![c].owner = NoThread,
                      ![c].waiters = conditions[c].waiters \cup {w}]
               /\ requests' = At(w, "wait")
          ELSE /\ requests' = At(w, "set")
               /\ UNCHANGED conditions
       /\ UNCHANGED <<active_requests, condition_locks, global_lock>>
       /\ UNCHANGED cache_vars

\* inqueue: self.active_requests[request_key] = True, the end of the with
\* block and the return
SetActive(w) ==
    LET c == requests[w].condition
    IN /\ requests[w].at = "set"
       /\ active_requests' = active_requests \cup {requests[w].key}
       /\ conditions' = [conditions EXCEPT ![c].owner = NoThread]
       /\ requests' = At(w, "processing")
       /\ UNCHANGED <<condition_locks, global_lock>>
       /\ UNCHANGED cache_vars

\* process_request calls dequeue(key), which calls get_condition(key)
Dequeue(w) ==
    /\ requests[w].at = "processing"
    /\ requests' = At(w, "dequeue")
    /\ UNCHANGED <<active_requests, condition_locks, global_lock, conditions>>
    /\ UNCHANGED cache_vars

\* dequeue: the key is taken out of active_requests and the threads waiting
\* on this Condition are woken; the end of the with block
If(w) ==
    LET c == requests[w].condition
        key == requests[w].key
        woken == IF key \in active_requests THEN conditions[c].waiters ELSE {}
    IN /\ requests[w].at = "if"
       /\ active_requests' = active_requests \ {key}
       /\ conditions' = [conditions EXCEPT
             ![c].owner = NoThread,
             ![c].waiters = conditions[c].waiters \ woken]
       /\ requests' = [v \in Workers |->
             IF v = w THEN [requests[v] EXCEPT !.at = "cleanup"]
             ELSE IF v \in woken THEN [requests[v] EXCEPT !.at = "notified"]
             ELSE requests[v]]
       /\ UNCHANGED <<condition_locks, global_lock>>
       /\ UNCHANGED cache_vars

\* dequeue: the second `with self.global_lock:`
CleanupLock(w) ==
    /\ requests[w].at = "cleanup"
    /\ global_lock = NoThread
    /\ global_lock' = w
    /\ requests' = At(w, "cleanup_if")
    /\ UNCHANGED <<active_requests, condition_locks, conditions>>
    /\ UNCHANGED cache_vars

\* the condition_locks dequeue leaves: the key's Condition is deleted when the
\* key is not in active_requests
Cleaned(locks, active, key) ==
    IF key \in DOMAIN locks /\ key \notin active
    THEN [k \in DOMAIN locks \ {key} |-> locks[k]]
    ELSE locks

\* dequeue: the deletion of the key's Condition, the end of the with block and
\* the return
CleanupConditionLocks(w) ==
    /\ requests[w].at = "cleanup_if"
    /\ condition_locks' =
          Cleaned(condition_locks, active_requests, requests[w].key)
    /\ global_lock' = NoThread
    /\ requests' = At(w, "finished")
    /\ UNCHANGED <<active_requests, conditions>>
    /\ UNCHANGED cache_vars

\* one step of worker w
Worker(w) ==
    \/ \E key \in RequestKeys : Inqueue(w, key)
    \/ GetConditionLock(w)
    \/ GetCondition(w)
    \/ WithCondition(w)
    \/ While(w)
    \/ SetActive(w)
    \/ Dequeue(w)
    \/ If(w)
    \/ CleanupLock(w)
    \/ CleanupConditionLocks(w)

\* the workers of one manager, each running process_request once
NextQueue == \E w \in Workers : Worker(w)

SpecQueue == InitLRU /\ [][NextQueue]_vars

\* the same with a scheduler that lets every worker run: a step that is
\* possible again and again is taken
SpecQueueFair ==
    /\ SpecQueue
    /\ \A w \in Workers : SF_vars(Worker(w))

\* two callers and the cleanup thread on one key, step by step
NextLock ==
    \/ \E t \in Threads, op \in Ops : Call(t, op)
    \/ \E t \in Threads : Acquire(t)
    \/ \E t \in Threads : Size(t)
    \/ \E t \in Threads : Body(t)
    \/ \E t \in Threads : Release(t)
    \/ pc["sweeper"].at = "idle" /\ SweeperTest
    \/ Close

SpecLock == Init /\ [][NextLock]_vars

\* one key written again and again over time, also within one reading of
\* the clock
NextTwice ==
    \/ /\ Set("A", 1, default_expiration_time, FALSE, FALSE, <<>>)
       /\ Fresh("A", default_expiration_time, MaxCopies + 1)
       /\ Alone
    \/ Delete("A") /\ Alone
    \/ ExpireMatchingKeys("A") /\ Alone
    \/ SweeperTest
    \/ \E sample \in Samples : Cleanup(sample) /\ Alone
    \/ Tick

SpecTwice == InitLRU /\ [][NextTwice]_vars

\* ------------------------------------------------------------------ claims
NoPermanent(d) == \A i \in DOMAIN d : ~d[i].permanent

\* C1: the estimated occupancy of the table, the sum of the sizes of its keys
\* and stored values, never exceeds max_size, and the entry a set stores is
\* never larger than max_size
C1_OccupancyWithinCapacity ==
    /\ _get_current_size(cache) <= max_size
    /\ (last.op = "set" /\ last.stored) =>
            EntrySize(Lookup(cache, last.key)) <= max_size

\* C2: no eviction step of a set removes from the table a permanent entry of
\* a key other than the one being set
C2_EvictionSparesPermanent ==
    \A i \in DOMAIN last.evicted :
        (/\ Has(last.evicted[i].cache, last.evicted[i].victim)
         /\ last.evicted[i].victim # last.key) =>
            ~Lookup(last.evicted[i].cache, last.evicted[i].victim).permanent

\* C3: a permanent entry is never removed as expired, neither by get nor by
\* the heap drain of the cleanup cycle, and get returns its value, whatever
\* the clock and its expiration_time (0 after expire_matching_keys)
C3_PermanentNeverExpires ==
    [][\A k \in Keys :
         (Has(cache, k) /\ Lookup(cache, k).permanent) =>
            /\ k \notin last'.expired
            /\ (last'.op = "get" /\ last'.key = k) =>
                   /\ Has(cache', k)
                   /\ last'.ret = Deref(Lookup(cache, k).value)
            /\ last'.op = "cleanup" => (Has(cache', k) \/ k \in last'.swept)]_vars

\* C3 witness: a get returned the value of a permanent entry whose
\* expiration_time expire_matching_keys set to 0 at an earlier instant
C3_Witness ==
    /\ last.op = "get"
    /\ last.ret # None
    /\ Has(cache, last.key)
    /\ Lookup(cache, last.key).permanent
    /\ Lookup(cache, last.key).expiration_time = 0
    /\ now > Lookup(cache, last.key).created

\* C4: for a non-permanent entry, a get after created + expiration_time
\* returns None; up to that deadline the entry stays in the table unless it
\* is deleted, evicted (by a set or by the periodic strategy pass) or
\* overwritten, and a get returns its value
C4_ExpiresAtItsDeadline ==
    [][\A k \in Keys :
         (Has(cache, k) /\ ~Lookup(cache, k).permanent) =>
            LET e == Lookup(cache, k)
            IN /\ (last'.op = "get" /\ last'.key = k
                     /\ now > e.created + e.expiration_time) =>
                       last'.ret = None
               /\ now <= e.created + e.expiration_time =>
                     /\ (last'.op = "get" /\ last'.key = k) =>
                            last'.ret = Deref(e.value)
                     /\ \/ Has(cache', k)
                        \/ last'.op = "delete" /\ last'.key = k
                        \/ last'.op = "set"
                        \/ k \in last'.swept]_vars

\* C5: a get of a non-permanent entry whose expiration_time
\* expire_matching_keys set to 0 returns None
C5_ExpiredOnNextGet ==
    [][\A k \in Keys :
         (/\ Has(cache, k)
          /\ ~Lookup(cache, k).permanent
          /\ Lookup(cache, k).expiration_time = 0
          /\ last'.op = "get" /\ last'.key = k) =>
            last'.ret = None]_vars

\* C6: under LRU with no permanent entry in the table, the victim of every
\* eviction step of set is the least recently touched key in the table
C6_LRUEvictsLeastRecentlyTouched ==
    cleanup_strategy = "LRU" =>
        \A i \in DOMAIN last.evicted :
            NoPermanent(last.evicted[i].cache) =>
                last.evicted[i].victim =
                    Restrict(last.before.touched,
                             KeySet(last.evicted[i].cache))[1]

\* C6 witness: A was stored before B and touched after it, and set(C) evicted
\* B and kept A
C6_Witness ==
    /\ cleanup_strategy = "LRU"
    /\ last.op = "set" /\ last.key = "C" /\ last.stored
    /\ Len(last.evicted) = 1
    /\ last.evicted[1].victim = "B"
    /\ last.before.arrived = <<"A", "B">>
    /\ last.before.touched = <<"B", "A">>
    /\ KeysOf(cache) = <<"A", "C">>

\* C7: under FIFO with no permanent entry in the table, the victim of every
\* eviction step of set is the earliest stored key in the table, and a get
\* leaves the order of the keys in the table unchanged
C7_FIFOEvictsInArrivalOrder ==
    [][cleanup_strategy = "FIFO" =>
         /\ \A i \in DOMAIN last'.evicted :
                NoPermanent(last'.evicted[i].cache) =>
                    last'.evicted[i].victim =
                        Restrict(last'.before.arrived,
                                 KeySet(last'.evicted[i].cache))[1]
         /\ last'.op = "get" =>
                KeysOf(cache') =
                    SelectSeq(KeysOf(cache), LAMBDA k : k \notin last'.expired)]_vars

\* C7 witness: A was stored before B and touched after it, and set(C) evicted
\* A all the same
C7_Witness ==
    /\ cleanup_strategy = "FIFO"
    /\ last.op = "set" /\ last.key = "C" /\ last.stored
    /\ Len(last.evicted) = 1
    /\ last.evicted[1].victim = "A"
    /\ last.before.arrived = <<"A", "B">>
    /\ last.before.touched = <<"B", "A">>
    /\ KeysOf(cache) = <<"B", "C">>

\* C8: under LFU, every key an eviction step of set removes from the table
\* has the fewest hits of the keys then in the table
C8_LFUEvictsFewestHits ==
    cleanup_strategy = "LFU" =>
        \A i \in DOMAIN last.evicted :
            Has(last.evicted[i].cache, last.evicted[i].victim) =>
                \A k \in KeySet(last.evicted[i].cache) :
                    last.before.counted[last.evicted[i].victim]
                        <= last.before.counted[k]

\* C8 witness: A, stored first, was hit once and B never, and set(C) evicted B
\* and kept A
C8_Witness ==
    /\ cleanup_strategy = "LFU"
    /\ last.op = "set" /\ last.key = "C" /\ last.stored
    /\ Len(last.evicted) = 1
    /\ last.evicted[1].victim = "B"
    /\ KeysOf(last.evicted[1].cache) = <<"A", "B">>
    /\ last.before.counted["A"] = 1
    /\ last.before.counted["B"] = 0
    /\ KeysOf(cache) = <<"A", "C">>

\* C9: under SizeBased, the victim of every eviction step of set is an entry
\* of the table, and no entry then in the table is larger
C9_SizeBasedEvictsLargest ==
    cleanup_strategy = "SizeBased" =>
        \A i \in DOMAIN last.evicted :
            /\ Has(last.evicted[i].cache, last.evicted[i].victim)
            /\ \A j \in DOMAIN last.evicted[i].cache :
                   EntrySize(last.evicted[i].cache[j]) <=
                       EntrySize(Lookup(last.evicted[i].cache,
                                        last.evicted[i].victim))

\* C9 witness: an eviction step took an entry larger than the one at the front
C9_Witness ==
    /\ cleanup_strategy = "SizeBased"
    /\ last.op = "set"
    /\ last.evicted # <<>>
    /\ EntrySize(last.evicted[1].cache[1]) <
           EntrySize(Lookup(last.evicted[1].cache, last.evicted[1].victim))

\* C10: no cleanup cycle runs once close() has returned
C10_NoCleanupAfterClose == last.op = "cleanup" => cleanup_loop_thread

C12_SetNeverRaises ==
    last.op = "set" =>
        /\ ~last.raised
        /\ \A i \in DOMAIN last.evicted :
               /\ last.evicted[i].cache # <<>>
               /\ cleanup_strategy = "LFU" => last.evicted[i].freq # <<>>

\* C13: every entry the heap drain of a cleanup cycle deletes is in the table,
\* is not permanent, and has created + expiration_time equal to the deadline
\* of a record the drain popped; so its deadline is not in the future
C13_DrainChecksDeadline ==
    [][last'.op = "cleanup" =>
         \A k \in last'.expired :
            /\ Has(cache, k)
            /\ ~Lookup(cache, k).permanent
            /\ \E r \in BagToSet(expiration_heap) :
                   /\ r[1] < now
                   /\ r[2] = k
                   /\ r[1] = Lookup(cache, k).created
                                + Lookup(cache, k).expiration_time
            /\ Lookup(cache, k).created + Lookup(cache, k).expiration_time
                   <= now]_vars

\* C14: for every non-permanent entry in the table, the expiration heap holds
\* at most one record with the entry's key and the entry's deadline
\* created + expiration_time
C14_OneLiveRecord ==
    \A i \in DOMAIN cache :
        ~cache[i].permanent =>
            CopiesIn(<<cache[i].created + cache[i].expiration_time,
                       cache[i].key>>, expiration_heap) <= 1

\* C16: under LFU the keys that have an access counter are the keys in the
\* table; under every other strategy there is no counter
C16_CountersMatchTable ==
    IF cleanup_strategy = "LFU"
    THEN KeySet(access_frequency) = KeySet(cache)
    ELSE access_frequency = <<>>

\* C17: every set ends after a bounded number of calls of _evict_if_needed, at
\* most one for each key in the table or in the counter map when it starts
\* and a last one that evicts nothing; every call that reports an eviction
\* has removed a key from the table or from the counter map
C17_SetTerminates ==
    [][last'.op = "set" =>
         /\ last'.passes <=
                Cardinality(KeySet(cache) \cup KeySet(access_frequency)) + 1
         /\ last'.passes < MaxPasses
         /\ \A i \in DOMAIN last'.evicted :
                last'.evicted[i].victim \in
                    KeySet(last'.evicted[i].cache)
                        \cup KeySet(last'.evicted[i].freq)]_vars

\* C17 witness: a set under LFU called _evict_if_needed twice, first removing
\* a counter the heap drain had left behind, then an entry, and stored
C17_Witness ==
    /\ cleanup_strategy = "LFU"
    /\ last.op = "set" /\ last.stored
    /\ last.passes = 2
    /\ Len(last.evicted) = 2
    /\ ~Has(last.evicted[1].cache, last.evicted[1].victim)
    /\ Has(last.evicted[2].cache, last.evicted[2].victim)

\* C18: when a set of an entry that is not larger than max_size gives up for
\* lack of space, every entry left in the table is permanent
C18_DroppedOnlyWhenAllPermanent ==
    (last.op = "set" /\ last.aborted) =>
        \A i \in DOMAIN cache : cache[i].permanent

\* C18 witness: a set evicted an entry, then gave up with a permanent entry
\* left in the table
C18_Witness ==
    /\ last.op = "set"
    /\ last.aborted
    /\ last.evicted # <<>>
    /\ cache # <<>>

\* C19: a cleanup cycle that runs once the clock has advanced past the moment
\* expire_matching_keys set a non-permanent entry's expiration_time to 0
\* removes that entry from the table
C19_SweptAfterExpireMatching ==
    [][\A k \in Keys :
         (/\ last'.op = "cleanup"
          /\ Has(cache, k)
          /\ ~Lookup(cache, k).permanent
          /\ Lookup(cache, k).expiration_time = 0
          /\ now > Lookup(cache, k).created) =>
            ~Has(cache', k)]_vars

\* C20: the strategy pass of a cleanup cycle, starting from the n entries the
\* heap drain has left, removes (n * fraction) rounded down entries when
\* n > max_size * fraction and none otherwise
C20_PassRemovesFraction ==
    [][last'.op = "cleanup" =>
         LET n == Len(cache) - Cardinality(last'.expired)
         IN Cardinality(last'.swept) =
                IF n * FractionDen > max_size * FractionNum
                THEN (n * FractionNum) \div FractionDen
                ELSE 0]_vars

\* C15: at most one thread is between taking the lock and giving it back,
\* and that thread owns the lock; from the moment it took the lock to the
\* moment its operation acts, the table, the heap and the counters are as it
\* found them; and the thread that measures the table inside set can take
\* again the lock it holds
C15_OperationsAreSerial ==
    /\ Cardinality({t \in Threads : pc[t].at \in {"size", "body", "exit"}}) <= 1
    /\ \A t \in Threads :
           /\ pc[t].at \in {"size", "body", "exit"} =>
                  (lock.owner = t /\ lock.count = 1)
           /\ pc[t].at \in {"size", "body"} => pc[t].seen = Data
           /\ pc[t].at = "size" => ENABLED Size(t)
    /\ (\A t \in Threads : pc[t].at \in {"idle", "with"}) => lock = Unlocked

\* C15 witness: a caller is inside set, past the nested acquisition, while the
\* other caller and the cleanup thread wait for the lock
C15_Witness ==
    /\ pc["t1"].at = "body" /\ pc["t1"].op = "set"
    /\ pc["t2"].at = "with"
    /\ pc["sweeper"].at = "with"
    /\ cache # <<>>

\* C21: once close() has been called the cleanup loop eventually exits, and
\* once it has exited it stays so and no cleanup cycle runs
C21_SweeperExitsAfterClose ==
    /\ (~cleanup_loop_thread) ~> (sweeper = "exit")
    /\ [][sweeper = "exit" =>
             (sweeper' = "exit" /\ last'.op # "cleanup")]_vars

\* C21 witness: the loop has just tested the flag after close() and exited,
\* with an entry in the table
C21_Witness ==
    /\ ~cleanup_loop_thread
    /\ sweeper = "exit"
    /\ last.op = "while"
    /\ cache # <<>>

\* C22: a set whose entry_size exceeds max_size attempts no eviction and
\* leaves the table, the expiration heap and the counters as they were
C22_OversizedSetChangesNothing ==
    [][(last'.op = "set" /\ last'.size > max_size) =>
          /\ cache' = cache
          /\ expiration_heap' = expiration_heap
          /\ access_frequency' = access_frequency
          /\ last'.passes = 0
          /\ last'.evicted = <<>>
          /\ ~last'.stored]_vars

\* C22 witness: a set of an entry larger than max_size was made with the
\* table full
C22_Witness ==
    /\ last.op = "set"
    /\ last.size > max_size
    /\ _get_current_size(cache) = max_size

\* C23: delete(key) takes the key's entry out of the table, with its counter
\* when the entry was there, changes neither when it was not, and leaves the
\* expiration heap and every other key's entry, counter and position alone
C23_DeleteFrame ==
    [][last'.op = "delete" =>
          /\ ~Has(cache', last'.key)
          /\ Has(cache, last'.key) => ~Has(access_frequency', last'.key)
          /\ ~Has(cache, last'.key) =>
                (cache' = cache /\ access_frequency' = access_frequency)
          /\ expiration_heap' = expiration_heap
          /\ cache' = Remove(cache, last'.key)
          /\ Remove(access_frequency', last'.key) =
                Remove(access_frequency, last'.key)]_vars

\* C23 witness: a delete took a counted entry out of the table, another
\* counted entry and the heap records staying
C23_Witness ==
    /\ last.op = "delete"
    /\ last.removed = {last.key}
    /\ cache # <<>>
    /\ access_frequency # <<>>
    /\ expiration_heap # EmptyBag

\* C24: expire_matching_keys(pattern) removes no key and moves none, leaves
\* every entry whose key the pattern does not match as it was, keeps the value
\* and the permanent flag of the entries it matches, and a get of a key it
\* does not match returns, now or later, what it would have returned
C24_ExpireMatchingKeysFrame ==
    [][last'.op = "expire_matching_keys" =>
          /\ KeysOf(cache') = KeysOf(cache)
          /\ \A i \in DOMAIN cache :
                /\ ~Matches(last'.key, cache[i].key) => cache'[i] = cache[i]
                /\ cache'[i].value = cache[i].value
                /\ cache'[i].permanent = cache[i].permanent
          /\ \A k \in Keys : ~Matches(last'.key, k) =>
                \A t \in now..MaxTime :
                    Returned(cache', k, t) = Returned(cache, k, t)]_vars

\* C24 witness: the narrow pattern was applied to a table holding a permanent
\* entry it matches and an entry it does not match
C24_Witness ==
    /\ last.op = "expire_matching_keys"
    /\ last.key = "A"
    /\ Has(cache, "A") /\ Has(cache, "B")
    /\ Lookup(cache, "A").expiration_time = 0
    /\ Lookup(cache, "A").permanent
    /\ Lookup(cache, "B").expiration_time # 0

\* C25: a set that gives up for lack of space removes no entry that was in
\* the table
C25_DroppedSetRemovesNothing ==
    [][(last'.op = "set" /\ last'.aborted) =>
          /\ KeySet(cache) \subseteq KeySet(cache')
          /\ last'.evicted = <<>>]_vars

\* C26: a set of a key that is in the table, whose entry fits once the key's
\* old entry is discounted, stores its entry, evicts no other key and is not
\* dropped
C26_OverwriteNeedsOnlyItsRoom ==
    [][(/\ last'.op = "set"
        /\ Has(cache, last'.key)
        /\ ~last'.raised
        /\ _get_current_size(Remove(cache, last'.key)) + last'.size <= max_size)
       =>
          /\ last'.stored
          /\ ~last'.aborted
          /\ KeySet(cache') = KeySet(cache)]_vars

\* C27: the strategy pass of a cleanup cycle removes no permanent entry
C27_PeriodicPassSparesPermanent ==
    [][last'.op = "cleanup" =>
          \A k \in KeySet(cache) :
              Lookup(cache, k).permanent => Has(cache', k)]_vars

\* C28: for every key at most one worker is between the return of its inqueue
\* and its call of dequeue
C28_MutualExclusion ==
    \A key \in RequestKeys :
        Cardinality({w \in Workers : /\ requests[w].at = "processing"
                                     /\ requests[w].key = key}) <= 1

\* C29: every worker that is in inqueue eventually returns from it
C29_NoLostWakeUp ==
    \A w \in Workers :
        (requests[w].at \in {"inqueue", "inqueue_get", "inqueue_with",
                             "while", "wait", "notified", "set"})
            ~> (requests[w].at = "processing")

====
